---- MODULE Spec2Model ----
(***************************************************************************)
(* Verification model of the scheduling core of PropertyScraper Dell710:   *)
(*   - AdvancedOrchestrator        (orchestrator/advanced_orchestrator.py) *)
(*   - EnhancedScrapsRegistry      (utils/enhanced_scraps_registry.py)     *)
(*   - ConcurrentScraperManager    (orchestrator/concurrent_manager.py)    *)
(*   - CheckpointRecoverySystem    (utils/checkpoint_recovery.py)          *)
(*                                                                         *)
(* A behaviour is a run of one program: run_orchestration (Spec, SpecCap), *)
(* the restart after a crash (SpecRecovery), the run from the constructor  *)
(* on the files of URLs/ (SpecLoad), two concurrent calls of               *)
(* update_scrap_execution (SpecUpdate), the manager of concurrent scrapers *)
(* (Spec, SpecPool) or a call of start_scraper_subprocess (Spec).          *)
(*                                                                         *)
(* Conventions.  A task ("scrap") is a row of the URL registry and is      *)
(* identified by its index in the registry sequence (the load order of     *)
(* load_urls_from_csv).  Text fields that the code only compares are kept  *)
(* as strings; fields that the code orders (operacion, producto,           *)
(* last_run) are kept as the rank of the text in the order Python uses.    *)
(* Timestamps are kept relative to the present:                            *)
(*   last_run : 0 = '' (never run), 1 = an earlier run, 2 = written now    *)
(*   next_run : 0 = '' (never run), 1 = elapsed,        2 = in the future  *)
(***************************************************************************)
EXTENDS Integers, Sequences, FiniteSets, Bags, TLC

VARIABLES
    \* ---- AdvancedOrchestrator / EnhancedScrapsRegistry ----
    csv,                \* the rows of URLs/*.csv on disk
    urls_registry,      \* EnhancedScrapsRegistry.urls_registry (in memory)
    running,            \* AdvancedOrchestrator.running
    max_concurrent_websites, \* AdvancedOrchestrator.max_concurrent_websites
    active_scrapers,    \* AdvancedOrchestrator.active_scrapers (insertion-ordered dict)
    completed_scrapers, \* the tasks in the list completed_scrapers
    failed_scrapers,    \* the tasks in the list failed_scrapers
    main,               \* the thread of run_orchestration: its position and locals
    wt,                 \* the bag of website threads (process_website_completely),
                        \* each with the scraper thread it started
    sd,                 \* the activation of graceful_shutdown
    \* ---- CheckpointRecoverySystem ----
    legacy,             \* the file data/scraps_registry.csv (the former central registry)
    \* ---- ConcurrentScraperManager ----
    mgr,                \* the manager: its queue, its threads and its records
    \* ---- AdvancedOrchestrator.start_scraper_subprocess ----
    sub,                \* a call of start_scraper_subprocess: its argument and the launches
    \* ---- EnhancedScrapsRegistry, seen from its files ----
    urls_dir,           \* the files of URLs/ as EnhancedScrapsRegistry.__init__ finds them
    upd,                \* the calls of update_scrap_execution that are under way
    \* ---- MasterController ----
    mc                  \* the controller, its monitoring thread and the remote machine

orchVars == <<csv, urls_registry, running, max_concurrent_websites, active_scrapers,
              completed_scrapers, failed_scrapers, main, wt, sd>>

\* the state that the threads of run_orchestration do not touch
others == <<legacy, mgr, sub, urls_dir, upd, mc>>

vars == <<orchVars, others>>

(***************************************************************************)
(* Bounds of the model                                                      *)
(***************************************************************************)
\* website threads that may be alive at the same time (the code sets no limit)
MaxThreads == 2
\* the same, in the runs that fill the lanes of max_concurrent_websites
CapThreads == 5

(***************************************************************************)
(* Program constants                                                        *)
(***************************************************************************)
\* AdvancedOrchestrator.__init__: self.max_concurrent_websites = 4
DefaultMaxConcurrentWebsites == 4
\* get_next_website_to_process: get_next_scraps_to_run(20)
NextScrapsCount == 20
\* get_website_priority: priorities.get(website, 10)
DefaultPriority == 10

NoWebsite == ""
NoScrap == 0

\* AdvancedOrchestrator.scraper_functions: the keys of the dict
scraper_functions == {"inm24", "inm24_det", "cyt", "mit", "lam", "lam_det", "prop", "tro"}

\* str.lower() on the website names that occur
Lower(w) ==
    CASE w = "Inmuebles24" -> "inmuebles24"
      [] w = "Casas_y_terrenos" -> "casas_y_terrenos"
      [] OTHER -> w

\* EnhancedScrapsRegistry.get_website_priority
get_website_priority(w) ==
    CASE w = "Inmuebles24" -> 1
      [] w = "Casas_y_terrenos" -> 2
      [] w = "lamudi" -> 3
      [] w = "mitula" -> 4
      [] w = "propiedades" -> 5
      [] w = "trovit" -> 6
      [] OTHER -> DefaultPriority

(***************************************************************************)
(* Sequences                                                                *)
(***************************************************************************)
\* the order of Python on the 2-tuples used as sort keys
LexLess(p, q) == p[1] < q[1] \/ (p[1] = q[1] /\ p[2] < q[2])

\* list.sort(key=...): a stable sort of the sequence s by key[x] (insertion
\* sort: an element goes after every element whose key is not greater)
RECURSIVE InsertSorted(_, _, _)
InsertSorted(s, x, key) ==
    IF s = <<>> THEN <<x>>
    ELSE IF LexLess(key[x], key[s[Len(s)]])
         THEN Append(InsertSorted(SubSeq(s, 1, Len(s) - 1), x, key), s[Len(s)])
         ELSE Append(s, x)

RECURSIVE StableSort(_, _)
StableSort(s, key) ==
    IF s = <<>> THEN <<>>
    ELSE InsertSorted(StableSort(SubSeq(s, 1, Len(s) - 1), key), s[Len(s)], key)

\* the indices k..n of the set keep, in increasing order
RECURSIVE FilterIdx(_, _, _)
FilterIdx(n, k, keep) ==
    IF k > n THEN <<>>
    ELSE IF k \in keep THEN <<k>> \o FilterIdx(n, k + 1, keep)
         ELSE FilterIdx(n, k + 1, keep)

(***************************************************************************)
(* EnhancedScrapsRegistry                                                   *)
(***************************************************************************)
\* a faulty variant of get_pending_scraps, to show that C24 tells the
\* difference: the due rows in the order of the registry, without the sort
get_pending_in_file_order(reg) ==
    FilterIdx(Len(reg), 1, {k \in DOMAIN reg : reg[k].next_run \in {0, 1}})

\* get_pending_scraps(website=None): every active row whose next_run is empty
\* or elapsed (the status is not read), sorted by (prioridad, last_run)
get_pending_scraps(reg) ==
    LET due == {k \in DOMAIN reg : reg[k].next_run \in {0, 1}}
        key == [k \in DOMAIN reg |->
                   <<get_website_priority(reg[k].website), reg[k].last_run>>]
    IN StableSort(FilterIdx(Len(reg), 1, due), key)

\* get_next_scraps_to_run(max_count): the first pending scrap of each website
RECURSIVE FirstPerWebsite(_, _, _, _, _)
FirstPerWebsite(reg, pending, selected, used_websites, max_count) ==
    IF pending = <<>> \/ Len(selected) >= max_count THEN selected
    ELSE IF reg[Head(pending)].website \notin used_websites
         THEN FirstPerWebsite(reg, Tail(pending), Append(selected, Head(pending)),
                              used_websites \cup {reg[Head(pending)].website}, max_count)
         ELSE FirstPerWebsite(reg, Tail(pending), selected, used_websites, max_count)

get_next_scraps_to_run(reg, max_count) ==
    FirstPerWebsite(reg, get_pending_scraps(reg), <<>>, {}, max_count)

\* load_urls_from_csv: ciudad.lower().replace(' ', '_') and the replacements
\* of '/' and '-' by '_', on the city names that occur
NormCity(c) ==
    CASE c = "Guadalajara" -> "guadalajara"
      [] c = "San Luis" -> "san_luis"
      [] c = "San-Luis" -> "san_luis"
      [] OTHER -> c

\* load_urls_from_csv: url_id, the id of a task.  operacion and producto are
\* ranks of lower-case texts without blanks, hyphens or accents, which the
\* replacements leave as they are
url_id(row) == <<Lower(row.website), NormCity(row.ciudad), row.operacion, row.producto>>

\* update_scrap_execution: next((s for s in self.urls_registry if s['id'] ==
\* scrap_id), None), as the place of s in the registry
FindScrap(reg, id) ==
    LET found == {t \in DOMAIN reg : url_id(reg[t]) = id}
    IN IF found = {} THEN NoScrap ELSE CHOOSE t \in found : \A u \in found : t <= u

\* update_scrap_execution: the row's Status, LastRun = now, NextRun = now +
\* intervalo_dias, for the row at place id (no row: nothing is written)
UpdateRow(reg, id, status) ==
    IF id \in DOMAIN reg
    THEN [reg EXCEPT ![id] = [@ EXCEPT !.status = status, !.last_run = 2, !.next_run = 2]]
    ELSE reg

(***************************************************************************)
(* AdvancedOrchestrator: pure parts                                         *)
(***************************************************************************)
\* the dict active_scrapers as the sequence of its items in insertion order
DictHas(d, w) == \E i \in DOMAIN d : d[i].website = w
DictSet(d, e) ==
    IF DictHas(d, e.website)
    THEN [d EXCEPT ![CHOOSE i \in DOMAIN d : d[i].website = e.website] = e]
    ELSE Append(d, e)
DictDel(d, w) == SelectSeq(d, LAMBDA e : e.website # w)

\* get_next_website_to_process
get_next_website_to_process(reg, active) ==
    LET next_scraps == get_next_scraps_to_run(reg, NextScrapsCount)
        free == SelectSeq(next_scraps, LAMBDA k : ~DictHas(active, reg[k].website))
    IN IF free = <<>> THEN NoWebsite ELSE reg[Head(free)].website

\* get_scraps_for_website: the rows of the website that are pending, or
\* completed with an elapsed next_run, sorted by (operacion, producto)
get_scraps_for_website(rows, website) ==
    LET wanted == {k \in DOMAIN rows :
                      /\ rows[k].website = website
                      /\ \/ rows[k].status = "pending"
                         \/ rows[k].status = "completed" /\ rows[k].next_run = 1}
        key == [k \in DOMAIN rows |-> <<rows[k].operacion, rows[k].producto>>]
    IN StableSort(FilterIdx(Len(rows), 1, wanted), key)

\* EnhancedScrapsRegistry.get_statistics (get_registry_stats is its alias):
\* the dict it returns, with the keys it has.  A row counts as executed when
\* its last_run is not empty, and as successful when its status is 'exitoso'
\* (a status the orchestrator never writes); the numbers of records are not
\* kept, so that promedio_registros is left at its initial 0
Executed(reg) == {k \in DOMAIN reg : reg[k].last_run # 0}

\* a faulty variant of get_statistics, to show that C1 and C2 tell the
\* difference: the dict has the keys that display_progress reads
get_statistics_by_status(reg) ==
    [completed |-> Cardinality({k \in DOMAIN reg : reg[k].status = "completed"}),
     failed    |-> Cardinality({k \in DOMAIN reg : reg[k].status = "failed"}),
     pending   |-> Cardinality({k \in DOMAIN reg : reg[k].status = "pending"}),
     running   |-> Cardinality({k \in DOMAIN reg : reg[k].status = "running"}),
     total_properties_scraped |-> 0]

get_statistics(reg) ==
    [total_scraps |-> Len(reg),
     scraps_activos |-> Len(reg),
     por_website |->
         [w \in {reg[k].website : k \in DOMAIN reg} |->
             [total |-> Cardinality({k \in DOMAIN reg : reg[k].website = w}),
              activos |-> Cardinality({k \in DOMAIN reg : reg[k].website = w}),
              ejecuciones |-> Cardinality({k \in Executed(reg) : reg[k].website = w}),
              exitosos |-> Cardinality({k \in Executed(reg) :
                               reg[k].website = w /\ reg[k].status = "exitoso"}),
              fallidos |-> Cardinality({k \in Executed(reg) :
                               reg[k].website = w /\ reg[k].status # "exitoso"})]],
     total_ejecuciones |-> Cardinality(Executed(reg)),
     ejecuciones_exitosas |-> Cardinality({k \in Executed(reg) : reg[k].status = "exitoso"}),
     ejecuciones_fallidas |-> Cardinality({k \in Executed(reg) : reg[k].status # "exitoso"}),
     promedio_registros |-> 0]

\* display_progress(): stats = self.registry.get_registry_stats(), the lines
\* of the active websites, then stats['completed'], stats['failed'], ...: a
\* key that stats does not have raises KeyError
display_progress(reg) ==
    LET subscripts == {"completed", "failed", "pending", "running", "total_properties_scraped"}
    IN IF subscripts \subseteq DOMAIN get_statistics(reg) THEN "returned" ELSE "KeyError"

(***************************************************************************)
(* AdvancedOrchestrator: state                                              *)
(***************************************************************************)
Row(website, operacion, producto, status) ==
    [website |-> website, ciudad |-> "Guadalajara", operacion |-> operacion,
     producto |-> producto, status |-> status, last_run |-> 0, next_run |-> 0]

\* process_website_completely, at its first line, for a website
NewThread(website) ==
    [pc |-> "begin", website |-> website, scraps |-> <<>>, scrap |-> NoScrap,
     ok |-> FALSE, alive |-> FALSE, result |-> "none",
     completed_websites |-> <<>>, listed |-> FALSE]

\* a website thread that returned while active_scrapers still holds the
\* entry with its scraper thread: only the scraper thread object is left
Ended(r) ==
    [r EXCEPT !.pc = "ended", !.scraps = <<>>, !.ok = FALSE, !.completed_websites = <<>>]

\* the scraper thread object of r is dropped once the thread has ended and
\* neither active_scrapers nor a later line of the website thread reads it
Forget(r) ==
    IF ~r.listed /\ ~r.alive /\ r.pc \in {"loop", "wait", "monitor_del"}
    THEN [r EXCEPT !.scrap = NoScrap, !.result = "none", !.ok = FALSE]
    ELSE r

WebsiteThreads == BagToSet(wt)
Replace(b, r, r2) == (b (-) SetToBag({r})) (+) SetToBag({Forget(r2)})
Remove(b, r) == b (-) SetToBag({r})
RECURSIVE SumCopies(_, _)
SumCopies(b, S) ==
    IF S = {} THEN 0
    ELSE LET r == CHOOSE x \in S : TRUE IN CopiesIn(r, b) + SumCopies(b, S \ {r})
NumLive(b) == SumCopies(b, {r \in BagToSet(b) : r.pc # "ended"})

\* the website thread whose scraper thread the entry of the website refers to
Owners(b, w) == {r \in BagToSet(b) : r.website = w /\ r.listed}
Owner(w) == CHOOSE r \in Owners(wt, w) : TRUE

\* the entry of website w leaves active_scrapers (deleted or overwritten)
Unlist(b, w) ==
    IF Owners(b, w) = {} THEN b
    ELSE LET r == CHOOSE x \in Owners(b, w) : TRUE
         IN IF r.pc = "ended" THEN Remove(b, r)
            ELSE Replace(b, r, [r EXCEPT !.listed = FALSE])

RECURSIVE UnlistAll(_, _)
UnlistAll(b, websites) ==
    IF websites = <<>> THEN b
    ELSE UnlistAll(Unlist(b, Head(websites)), Tail(websites))

\* the website thread r returns (or dies of an exception)
EndThread(b, r) == IF r.listed THEN Replace(b, r, Ended(r)) ELSE Remove(b, r)

\* threading.Thread.is_alive() and thread.result of the scraper thread of an entry
is_alive(e) == Owner(e.website).alive
result_success(e) == Owner(e.website).result = "success"

\* daemon threads run only while the main thread has not left the process
ProcessAlive == main.pc # "exit"
\* the main thread runs its own code unless the signal handler is running in it
MainRuns == ProcessAlive /\ sd.state # "iterating"

\* pc: "start" when run_orchestration is called, "none" when it is not
OrchInitWith(registry, cap, pc) ==
    /\ csv = registry
    /\ urls_registry = registry
    /\ running = FALSE
    /\ max_concurrent_websites = cap
    /\ active_scrapers = <<>>
    /\ completed_scrapers = {}
    /\ failed_scrapers = {}
    /\ main = [pc |-> pc, next_website |-> NoWebsite, ok |-> FALSE,
               completed_websites |-> <<>>, raised |-> FALSE]
    /\ wt = EmptyBag
    /\ sd = [state |-> "idle", by |-> "none", len |-> 0, pos |-> 0, scrap |-> NoScrap]

\* a registry in which one website has two tasks, listed in the CSV with the
\* later operation first
InitialRegistry ==
    << Row("inm24", 2, 1, "pending"), Row("inm24", 1, 1, "pending") >>

OrchInit == OrchInitWith(InitialRegistry, DefaultMaxConcurrentWebsites, "start")

\* the other components at rest: no legacy registry file, no manager, no call
NoLegacy == [exists |-> FALSE, rows |-> <<>>]
NoManager == [pc |-> "none"]
NoCall == [pc |-> "none"]
\* the constructor is not part of the run; no update call is followed line by line
NoDir == <<>>
NoUpdates == <<>>
\* no MasterController runs on the operator's machine
ControllerIdle == mc = [pc |-> "none"]
RegistryIdle == urls_dir = NoDir /\ upd = NoUpdates
OthersIdle ==
    legacy = NoLegacy /\ mgr = NoManager /\ sub = NoCall /\ RegistryIdle /\ ControllerIdle

\* the orchestrator is not running
OrchIdle == OrchInitWith(<<>>, DefaultMaxConcurrentWebsites, "none")

(***************************************************************************)
(* EnhancedScrapsRegistry.update_scrap_execution and monitor_active_scrapers *)
(***************************************************************************)
\* the task that update_scrap_execution(scrap['id'], ...) finds when it is
\* called with the scrap read from row k
Target(k) == FindScrap(urls_registry, url_id(csv[k]))

\* update_scrap_execution(scrap_id, status): the row is rewritten in the CSV
\* and in urls_registry
update_scrap_execution(k, status) ==
    /\ csv' = UpdateRow(csv, Target(k), status)
    /\ urls_registry' = UpdateRow(urls_registry, Target(k), status)

\* monitor_active_scrapers, first loop: the entries whose thread is not alive
Finished(active) == SelectSeq(active, LAMBDA e : ~is_alive(e))

RECURSIVE ReapRows(_, _)
ReapRows(reg, finished) ==
    IF finished = <<>> THEN reg
    ELSE ReapRows(UpdateRow(reg, Target(Head(finished).scrap),
                            IF result_success(Head(finished)) THEN "completed" ELSE "failed"),
                  Tail(finished))

WebsitesOf(entries) == [i \in DOMAIN entries |-> entries[i].website]

\* monitor_active_scrapers, first loop: every finished entry is recorded as
\* completed or failed; the result is the list completed_websites
MonitorReap ==
    LET finished == Finished(active_scrapers)
    IN /\ csv' = ReapRows(csv, finished)
       /\ urls_registry' = ReapRows(urls_registry, finished)
       /\ completed_scrapers' = completed_scrapers \cup
              {finished[i].scrap : i \in {j \in DOMAIN finished : result_success(finished[j])}}
       /\ failed_scrapers' = failed_scrapers \cup
              {finished[i].scrap : i \in {j \in DOMAIN finished : ~result_success(finished[j])}}

\* monitor_active_scrapers, second loop: del self.active_scrapers[website] for
\* each website of the list; a missing key raises KeyError and ends the loop
RECURSIVE DelAll(_, _)
DelAll(d, websites) ==
    IF websites = <<>> THEN [dict |-> d, raised |-> FALSE, deleted |-> <<>>]
    ELSE IF ~DictHas(d, Head(websites))
         THEN [dict |-> d, raised |-> TRUE, deleted |-> <<>>]
         ELSE LET rest == DelAll(DictDel(d, Head(websites)), Tail(websites))
              IN [dict |-> rest.dict, raised |-> rest.raised,
                  deleted |-> <<Head(websites)>> \o rest.deleted]

(***************************************************************************)
(* run_orchestration (the main thread)                                      *)
(***************************************************************************)
\* self.running = True
MainStart ==
    /\ MainRuns /\ main.pc = "start"
    /\ running' = TRUE
    /\ main' = [main EXCEPT !.pc = "loop"]
    /\ UNCHANGED <<others, csv, urls_registry, max_concurrent_websites, active_scrapers,
                   completed_scrapers, failed_scrapers, wt, sd>>

\* while self.running: if len(active_scrapers) < max_concurrent_websites:
\* next_website = get_next_website_to_process(); check_system_resources()
MainSelect ==
    /\ MainRuns /\ main.pc = "loop"
    /\ IF ~running
       THEN main' = [main EXCEPT !.pc = "finally"]
       ELSE LET next_website ==
                    IF Len(active_scrapers) < max_concurrent_websites
                    THEN get_next_website_to_process(urls_registry, active_scrapers)
                    ELSE NoWebsite
            IN IF next_website # NoWebsite
               THEN \E ok \in BOOLEAN :
                        main' = [main EXCEPT !.pc = "checked", !.ok = ok,
                                             !.next_website = next_website]
               ELSE main' = [main EXCEPT !.pc = "monitor", !.ok = FALSE,
                                         !.next_website = NoWebsite]
    /\ UNCHANGED <<others, csv, urls_registry, running, max_concurrent_websites, active_scrapers,
                   completed_scrapers, failed_scrapers, wt, sd>>

\* website_thread = threading.Thread(target=process_website_completely); start()
\* (the code sets no limit to the website threads; the model stops at limit)
StartWebsiteThread(limit) ==
    /\ MainRuns /\ main.pc = "checked" /\ main.ok
    /\ NumLive(wt) < limit
    /\ wt' = wt (+) SetToBag({NewThread(main.next_website)})
    /\ main' = [main EXCEPT !.pc = "monitor"]
    /\ UNCHANGED <<others, csv, urls_registry, running, max_concurrent_websites, active_scrapers,
                   completed_scrapers, failed_scrapers, sd>>

\* check_system_resources() returned False: no website thread is started
MainResourcesLow ==
    /\ MainRuns /\ main.pc = "checked" /\ ~main.ok
    /\ main' = [main EXCEPT !.pc = "monitor"]
    /\ UNCHANGED <<others, csv, urls_registry, running, max_concurrent_websites, active_scrapers,
                   completed_scrapers, failed_scrapers, wt, sd>>

\* monitor_active_scrapers(), first loop
MainMonitor ==
    /\ MainRuns /\ main.pc = "monitor"
    /\ MonitorReap
    /\ main' = [main EXCEPT !.pc = "monitor_del",
                            !.completed_websites = WebsitesOf(Finished(active_scrapers))]
    /\ UNCHANGED <<others, running, max_concurrent_websites, active_scrapers, wt, sd>>

\* monitor_active_scrapers(), second loop.  An exception leaves the while
\* loop: run_orchestration catches only KeyboardInterrupt, and its finally
\* clause runs
MainMonitorDel ==
    /\ MainRuns /\ main.pc = "monitor_del"
    /\ LET d == DelAll(active_scrapers, main.completed_websites)
       IN /\ active_scrapers' = d.dict
          /\ wt' = UnlistAll(wt, d.deleted)
          /\ main' = [main EXCEPT
                 !.completed_websites = <<>>,
                 !.raised = d.raised,
                 !.pc = IF d.raised THEN "finally" ELSE "display"]
    /\ UNCHANGED <<others, csv, urls_registry, running, max_concurrent_websites,
                   completed_scrapers, failed_scrapers, sd>>

\* self.display_progress(); when it has returned, save_state() and
\* "if not self.active_scrapers and not self.get_next_website_to_process(): break",
\* then time.sleep(30) and the next cycle.  An exception of display_progress
\* leaves the while loop like the one of monitor_active_scrapers
MainDisplay ==
    /\ MainRuns /\ main.pc = "display"
    /\ LET raised == display_progress(urls_registry) # "returned"
       IN main' = [main EXCEPT
              !.raised = raised,
              !.pc = IF raised THEN "finally"
                     ELSE IF active_scrapers = <<>> /\
                             get_next_website_to_process(urls_registry, active_scrapers)
                                 = NoWebsite
                          THEN "finally"
                          ELSE "loop"]
    /\ UNCHANGED <<others, csv, urls_registry, running, max_concurrent_websites, active_scrapers,
                   completed_scrapers, failed_scrapers, wt, sd>>

(***************************************************************************)
(* graceful_shutdown: called by the finally clause of run_orchestration, or *)
(* run in the main thread as the handler of SIGINT / SIGTERM                *)
(***************************************************************************)
\* finally: graceful_shutdown() while self.running: self.running = False and
\* the iteration of active_scrapers.items() begins
ShutdownBegin ==
    /\ MainRuns /\ main.pc = "finally" /\ running
    /\ running' = FALSE
    /\ sd' = [state |-> "iterating", by |-> "finally", len |-> Len(active_scrapers),
              pos |-> 0, scrap |-> NoScrap]
    /\ UNCHANGED <<others, csv, urls_registry, max_concurrent_websites, active_scrapers,
                   completed_scrapers, failed_scrapers, main, wt>>

\* finally: graceful_shutdown() returns at once when self.running is False;
\* run_orchestration returns (or lets the pending exception go on)
MainFinally ==
    /\ MainRuns /\ main.pc = "finally" /\ ~running
    /\ main' = [main EXCEPT !.pc = "exit"]
    /\ UNCHANGED <<others, csv, urls_registry, running, max_concurrent_websites, active_scrapers,
                   completed_scrapers, failed_scrapers, wt, sd>>

\* SIGINT / SIGTERM while run_orchestration is in its loop
Signal ==
    /\ MainRuns /\ main.pc \notin {"start", "finally"} /\ running
    /\ running' = FALSE
    /\ sd' = [state |-> "iterating", by |-> "signal", len |-> Len(active_scrapers),
              pos |-> 0, scrap |-> NoScrap]
    /\ UNCHANGED <<others, csv, urls_registry, max_concurrent_websites, active_scrapers,
                   completed_scrapers, failed_scrapers, main, wt>>

\* for website, scraper_info in self.active_scrapers.items(): the next item;
\* thread.join(timeout=30) follows
ShutdownNext ==
    /\ ProcessAlive /\ sd.state = "iterating" /\ sd.scrap = NoScrap
    /\ Len(active_scrapers) = sd.len /\ sd.pos < sd.len
    /\ sd' = [sd EXCEPT !.pos = sd.pos + 1, !.scrap = active_scrapers[sd.pos + 1].scrap]
    /\ UNCHANGED <<others, csv, urls_registry, running, max_concurrent_websites, active_scrapers,
                   completed_scrapers, failed_scrapers, main, wt>>

\* update_scrap_execution(scrap['id'], 'paused')
ShutdownPause ==
    /\ ProcessAlive /\ sd.state = "iterating" /\ sd.scrap # NoScrap
    /\ update_scrap_execution(sd.scrap, "paused")
    /\ sd' = [sd EXCEPT !.scrap = NoScrap]
    /\ UNCHANGED <<others, running, max_concurrent_websites, active_scrapers,
                   completed_scrapers, failed_scrapers, main, wt>>

\* RuntimeError: dictionary changed size during iteration.  From the signal
\* handler it goes into run_orchestration, whose finally clause runs; from the
\* finally clause it goes out of run_orchestration
ShutdownRaise ==
    /\ ProcessAlive /\ sd.state = "iterating" /\ sd.scrap = NoScrap
    /\ Len(active_scrapers) # sd.len
    /\ sd' = [sd EXCEPT !.state = "raised"]
    /\ main' = [main EXCEPT !.raised = TRUE,
                            !.pc = IF sd.by = "signal" THEN "finally" ELSE "exit"]
    /\ UNCHANGED <<others, csv, urls_registry, running, max_concurrent_websites, active_scrapers,
                   completed_scrapers, failed_scrapers, wt>>

\* the iteration is exhausted: save_state(), graceful_shutdown returns
ShutdownEnd ==
    /\ ProcessAlive /\ sd.state = "iterating" /\ sd.scrap = NoScrap
    /\ Len(active_scrapers) = sd.len /\ sd.pos = sd.len
    /\ sd' = [sd EXCEPT !.state = "returned"]
    /\ main' = [main EXCEPT !.pc = IF sd.by = "signal" THEN main.pc ELSE "exit"]
    /\ UNCHANGED <<others, csv, urls_registry, running, max_concurrent_websites, active_scrapers,
                   completed_scrapers, failed_scrapers, wt>>

(***************************************************************************)
(* process_website_completely (a website thread r) and its scraper thread   *)
(***************************************************************************)
\* website_scraps = self.get_scraps_for_website(website); return if empty
WFetch(r) ==
    /\ ProcessAlive /\ r.pc = "begin"
    /\ LET website_scraps == get_scraps_for_website(csv, r.website)
       IN wt' = IF website_scraps = <<>> THEN EndThread(wt, r)
                ELSE Replace(wt, r, [r EXCEPT !.pc = "loop", !.scraps = website_scraps])
    /\ UNCHANGED <<others, csv, urls_registry, running, max_concurrent_websites, active_scrapers,
                   completed_scrapers, failed_scrapers, main, sd>>

\* for scrap in website_scraps: if not self.running: break;
\* check_system_resources().  The time.sleep that ends the previous round of
\* the loop is the stay of the thread at "loop"
WNext(r) ==
    /\ ProcessAlive /\ r.pc = "loop"
    /\ IF r.scraps = <<>> \/ ~running
       THEN wt' = EndThread(wt, r)
       ELSE \E ok \in BOOLEAN :
                wt' = Replace(wt, r, [r EXCEPT !.pc = "checked", !.ok = ok,
                                               !.scrap = Head(r.scraps),
                                               !.scraps = Tail(r.scraps),
                                               !.alive = FALSE, !.result = "none"])
    /\ UNCHANGED <<others, csv, urls_registry, running, max_concurrent_websites, active_scrapers,
                   completed_scrapers, failed_scrapers, main, sd>>

\* a faulty variant of WCooldown, to show that C9 tells the difference: the
\* scraper is started although check_system_resources() returned False
WCooldownStartsAnyway(r) ==
    /\ ProcessAlive /\ r.pc = "checked" /\ ~r.ok
    /\ update_scrap_execution(r.scrap, "running")
    /\ wt' = Replace(wt, r, [r EXCEPT !.pc = "started", !.alive = TRUE])
    /\ UNCHANGED <<others, running, max_concurrent_websites, active_scrapers,
                   completed_scrapers, failed_scrapers, main, sd>>

\* check_system_resources() returned False: time.sleep(60); continue
WCooldown(r) ==
    /\ ProcessAlive /\ r.pc = "checked" /\ ~r.ok
    /\ wt' = Replace(wt, r, [r EXCEPT !.pc = "loop", !.scrap = NoScrap])
    /\ UNCHANGED <<others, csv, urls_registry, running, max_concurrent_websites, active_scrapers,
                   completed_scrapers, failed_scrapers, main, sd>>

\* thread = self.start_scraper_for_scrap(scrap)
start_scraper_for_scrap(r) ==
    /\ ProcessAlive /\ r.pc = "checked" /\ r.ok
    /\ IF Lower(r.website) \in scraper_functions
       THEN /\ update_scrap_execution(r.scrap, "running")
            /\ wt' = Replace(wt, r, [r EXCEPT !.pc = "started", !.alive = TRUE])
       ELSE /\ update_scrap_execution(r.scrap, "failed")
            /\ wt' = Replace(wt, r, [r EXCEPT !.pc = "loop", !.scrap = NoScrap])
    /\ UNCHANGED <<others, running, max_concurrent_websites, active_scrapers,
                   completed_scrapers, failed_scrapers, main, sd>>

\* self.active_scrapers[website] = {'thread': thread, 'scrap': scrap, ...}
WRegister(r) ==
    /\ ProcessAlive /\ r.pc = "started"
    /\ active_scrapers' = DictSet(active_scrapers, [website |-> r.website, scrap |-> r.scrap])
    /\ wt' = Replace(Unlist(wt, r.website), r, [r EXCEPT !.pc = "wait", !.listed = TRUE])
    /\ UNCHANGED <<others, csv, urls_registry, running, max_concurrent_websites,
                   completed_scrapers, failed_scrapers, main, sd>>

\* run_scraper_thread returns: thread.result is set and the scraper thread ends
ScraperFinish(r) ==
    /\ ProcessAlive /\ r.alive
    /\ \E result \in {"success", "failure"} :
           wt' = Replace(wt, r, [r EXCEPT !.alive = FALSE, !.result = result])
    /\ UNCHANGED <<others, csv, urls_registry, running, max_concurrent_websites, active_scrapers,
                   completed_scrapers, failed_scrapers, main, sd>>

\* while thread.is_alive() and self.running: time.sleep(30);
\* self.display_progress().  An exception of display_progress ends the website
\* thread: its scraper thread goes on and its entry stays in active_scrapers
WDisplay(r) ==
    /\ ProcessAlive /\ r.pc = "wait" /\ r.alive /\ running
    /\ wt' = IF display_progress(urls_registry) # "returned" THEN EndThread(wt, r) ELSE wt
    /\ UNCHANGED <<others, csv, urls_registry, running, max_concurrent_websites, active_scrapers,
                   completed_scrapers, failed_scrapers, main, sd>>

\* the wait loop and thread.join() are over (the scraper thread has ended);
\* monitor_active_scrapers(), first loop
WMonitor(r) ==
    /\ ProcessAlive /\ r.pc = "wait" /\ ~r.alive
    /\ MonitorReap
    /\ wt' = Replace(wt, r, [r EXCEPT !.pc = "monitor_del",
                 !.completed_websites = WebsitesOf(Finished(active_scrapers))])
    /\ UNCHANGED <<others, running, max_concurrent_websites, active_scrapers, main, sd>>

\* monitor_active_scrapers(), second loop; a KeyError ends the website thread
WMonitorDel(r) ==
    /\ ProcessAlive /\ r.pc = "monitor_del"
    /\ LET d == DelAll(active_scrapers, r.completed_websites)
           after == [r EXCEPT !.pc = "loop", !.completed_websites = <<>>]
       IN /\ active_scrapers' = d.dict
          /\ wt' = UnlistAll(IF d.raised THEN EndThread(wt, r) ELSE Replace(wt, r, after),
                             d.deleted)
    /\ UNCHANGED <<others, csv, urls_registry, running, max_concurrent_websites,
                   completed_scrapers, failed_scrapers, main, sd>>

(***************************************************************************)
(* Restart after a crash: checkpoint_recovery.py --auto-recovery, then       *)
(* advanced_orchestrator.py --resume                                         *)
(***************************************************************************)
\* migrate_registry_to_csv_files: the keys of file_map
FileMapWebsites ==
    {"Inmuebles24", "Casas_y_terrenos", "lamudi", "mitula", "propiedades", "trovit"}

\* a row of the legacy registry file
LegacyRow(ultimo_estado, ultima_ejecucion, proxima_ejecucion) ==
    [ultimo_estado |-> ultimo_estado, ultima_ejecucion |-> ultima_ejecucion,
     proxima_ejecucion |-> proxima_ejecucion]

\* migrate_registry_to_csv_files: the rows of the legacy file are copied into
\* the URL rows they match (row k of the legacy file has the URL of row k)
migrate_registry_to_csv_files(rows, leg) ==
    IF ~leg.exists THEN rows
    ELSE [k \in DOMAIN rows |->
             IF rows[k].website \in FileMapWebsites /\ k \in DOMAIN leg.rows
             THEN [rows[k] EXCEPT !.status = leg.rows[k].ultimo_estado,
                                  !.last_run = leg.rows[k].ultima_ejecucion,
                                  !.next_run = leg.rows[k].proxima_ejecucion]
             ELSE rows[k]]

\* EnhancedScrapsRegistry.__init__: migration, os.remove of the legacy file
\* (an OSError is passed over and the file stays), load_urls_from_csv
RegistryConstruct(pc) ==
    /\ csv' = migrate_registry_to_csv_files(csv, legacy)
    /\ urls_registry' = csv'
    /\ \E removed \in BOOLEAN : legacy' = IF removed THEN NoLegacy ELSE legacy
    /\ main' = [main EXCEPT !.pc = pc]
    /\ UNCHANGED <<running, max_concurrent_websites, active_scrapers, completed_scrapers,
                   failed_scrapers, wt, sd, mgr, sub, urls_dir, upd, mc>>

\* CheckpointRecoverySystem.__init__
RecoveryConstruct ==
    /\ main.pc = "crashed"
    /\ RegistryConstruct("recovery")

\* reset_scrap_status for every row of load_registry_data() whose
\* ultimo_estado is 'en_progreso': the rows of the legacy file are rewritten
reset_scrap_status(leg) ==
    IF ~leg.exists THEN leg
    ELSE [leg EXCEPT !.rows =
             [k \in DOMAIN leg.rows |->
                 IF leg.rows[k].ultimo_estado = "en_progreso"
                 THEN LegacyRow("Pendiente", 0, 0)
                 ELSE leg.rows[k]]]

\* auto_recovery_sequence: detect_interruption (checkpoint age, missing
\* processes, rows in progress in the legacy file), then the resets
auto_recovery_sequence ==
    /\ main.pc = "recovery"
    /\ \E aged \in BOOLEAN :
           LET in_progress == legacy.exists /\
                   \E k \in DOMAIN legacy.rows : legacy.rows[k].ultimo_estado = "en_progreso"
               interrupted == aged \/ in_progress
           IN legacy' = IF interrupted THEN reset_scrap_status(legacy) ELSE legacy
    /\ main' = [main EXCEPT !.pc = "recovered"]
    /\ UNCHANGED <<csv, urls_registry, running, max_concurrent_websites, active_scrapers,
                   completed_scrapers, failed_scrapers, wt, sd, mgr, sub, urls_dir, upd, mc>>

\* AdvancedOrchestrator.__init__
OrchConstruct ==
    /\ main.pc = "recovered"
    /\ RegistryConstruct("constructed")

\* resume_from_checkpoint: every paused row of load_urls_from_csv() is
\* updated to pending; run_orchestration follows
RECURSIVE ResumeRows(_, _)
ResumeRows(reg, paused) ==
    IF paused = <<>> THEN reg
    ELSE ResumeRows(UpdateRow(reg, Target(Head(paused)), "pending"), Tail(paused))

resume_from_checkpoint ==
    /\ main.pc = "constructed"
    /\ LET paused_scraps == FilterIdx(Len(csv), 1, {k \in DOMAIN csv : csv[k].status = "paused"})
       IN /\ csv' = ResumeRows(csv, paused_scraps)
          /\ urls_registry' = ResumeRows(urls_registry, paused_scraps)
    /\ main' = [main EXCEPT !.pc = "start"]
    /\ UNCHANGED <<running, max_concurrent_websites, active_scrapers, completed_scrapers,
                   failed_scrapers, wt, sd, others>>

\* The disk after a crash: each task was last written with one of the
\* statuses of the orchestrator; the legacy file exists on an installation
\* that was migrated from the central registry
CrashStatuses == {"pending", "running", "paused", "completed"}
CrashRow(website, operacion, status) ==
    [website |-> website, ciudad |-> "Guadalajara", operacion |-> operacion, producto |-> 1,
     status |-> status, last_run |-> 1, next_run |-> 2]
LegacyFiles ==
    {NoLegacy} \cup
    {[exists |-> TRUE, rows |-> <<LegacyRow(e, 1, 2)>>] : e \in {"en_progreso", "completado"}}

CrashInit ==
    /\ \E s1 \in CrashStatuses, s2 \in CrashStatuses :
           csv = << CrashRow("Inmuebles24", 1, s1), CrashRow("inm24", 1, s2) >>
    /\ urls_registry = <<>>
    /\ legacy \in LegacyFiles
    /\ running = FALSE
    /\ max_concurrent_websites = DefaultMaxConcurrentWebsites
    /\ active_scrapers = <<>>
    /\ completed_scrapers = {}
    /\ failed_scrapers = {}
    /\ main = [pc |-> "crashed", next_website |-> NoWebsite, ok |-> FALSE,
               completed_websites |-> <<>>, raised |-> FALSE]
    /\ wt = EmptyBag
    /\ sd = [state |-> "idle", by |-> "none", len |-> 0, pos |-> 0, scrap |-> NoScrap]
    /\ mgr = NoManager
    /\ sub = NoCall
    /\ RegistryIdle
    /\ ControllerIdle

(***************************************************************************)
(* A run that begins at the constructor: EnhancedScrapsRegistry.__init__     *)
(* loads the files of URLs/, then run_orchestration is called                *)
(***************************************************************************)
\* a row of a file of URLs/ that has a PaginaWeb and a URL, with Status 'pending'
FileRow(website, ciudad, operacion, producto) ==
    [website |-> website, ciudad |-> ciudad, operacion |-> operacion,
     producto |-> producto, status |-> "pending", last_run |-> 0, next_run |-> 0]

\* a file of URLs/: readable is whether open() and the csv reader work on it
UrlFile(readable, rows) == [readable |-> readable, rows |-> rows]

\* load_urls_from_csv: the rows of every file, in the order of glob; a file
\* that raises is logged and passed over
RECURSIVE load_urls_from_csv(_)
load_urls_from_csv(dir) ==
    IF dir = <<>> THEN <<>>
    ELSE (IF Head(dir).readable THEN Head(dir).rows ELSE <<>>)
             \o load_urls_from_csv(Tail(dir))

\* the directories of the runs: a file of inm24 with one task, or with two
\* rows of the same task, or with two tasks whose cities differ in their
\* spelling; and a file of Inmuebles24 with one task
LoadDirs ==
    LET r1 == FileRow("inm24", "San Luis", 1, 1)
        r2 == FileRow("inm24", "San-Luis", 1, 1)
        r3 == FileRow("Inmuebles24", "Guadalajara", 1, 1)
    IN {<<UrlFile(a, rows), UrlFile(b, <<r3>>)>> :
            a \in BOOLEAN, b \in BOOLEAN, rows \in {<<r1>>, <<r1, r1>>, <<r1, r2>>}}

\* before AdvancedOrchestrator() is constructed
LoadInit ==
    /\ OrchInitWith(<<>>, DefaultMaxConcurrentWebsites, "construct")
    /\ urls_dir \in LoadDirs

\* EnhancedScrapsRegistry.__init__: self.urls_registry = load_urls_from_csv().
\* From here on csv holds the rows that load_urls_from_csv() reads, which
\* passes over an unreadable file at every call
LoadRegistry ==
    /\ main.pc = "construct"
    /\ urls_registry' = load_urls_from_csv(urls_dir)
    /\ csv' = urls_registry'
    /\ main' = [main EXCEPT !.pc = "start"]
    /\ UNCHANGED <<running, max_concurrent_websites, active_scrapers, completed_scrapers,
                   failed_scrapers, wt, sd, others>>

(***************************************************************************)
(* update_scrap_execution line by line: two calls made by different threads  *)
(* (the main loop in monitor_active_scrapers or graceful_shutdown, a website *)
(* thread in start_scraper_for_scrap or monitor_active_scrapers) for two     *)
(* tasks whose rows are in the same file                                     *)
(***************************************************************************)
\* the statuses that the orchestrator writes during a run
UpdStatuses == {"running", "completed", "failed", "paused"}

\* a call of update_scrap_execution(scrap['id'], status) that has not begun
UpdCall(scrap, status) == [pc |-> "call", scrap |-> scrap, status |-> status, rows |-> <<>>]

\* one file with the rows of two tasks, and one call for each of them
UpdInit ==
    /\ \E s1 \in {"pending", "running"}, s2 \in {"pending", "running"} :
           OrchInitWith(<<Row("inm24", 1, 1, s1), Row("inm24", 2, 1, s2)>>,
                        DefaultMaxConcurrentWebsites, "none")
    /\ \E a \in UpdStatuses, b \in UpdStatuses : upd = <<UpdCall(1, a), UpdCall(2, b)>>

\* with open(csv_path, 'r') as f: rows = list(reader)
UpdRead(c) ==
    /\ upd[c].pc = "call"
    /\ upd' = [upd EXCEPT ![c] = [@ EXCEPT !.pc = "read", !.rows = csv]]
    /\ UNCHANGED <<orchVars, legacy, mgr, sub, urls_dir, mc>>

\* rows[row_index] = row; with open(csv_path, 'w') as f: writer.writerows(rows);
\* scrap.update({...}); return True
UpdWrite(c) ==
    /\ upd[c].pc = "read"
    /\ csv' = UpdateRow(upd[c].rows, Target(upd[c].scrap), upd[c].status)
    /\ urls_registry' = UpdateRow(urls_registry, Target(upd[c].scrap), upd[c].status)
    /\ upd' = [upd EXCEPT ![c] = [@ EXCEPT !.pc = "returned", !.rows = <<>>]]
    /\ UNCHANGED <<running, max_concurrent_websites, active_scrapers, completed_scrapers,
                   failed_scrapers, main, wt, sd, legacy, mgr, sub, urls_dir, mc>>

(***************************************************************************)
(* ConcurrentScraperManager (a program of its own: the orchestrator is not   *)
(* running while it runs)                                                    *)
(***************************************************************************)
\* DellT710ResourceMonitor.__init__ and get_optimal_concurrent_scrapers
MaxCpuUsage == 80
CpuPerScraper == 15
AvailableMemoryGb == (24 * 80) \div 100
MemoryPerScraperGb == 3
MaxScrapers == 4
Min(a, b) == IF a < b THEN a ELSE b
get_optimal_concurrent_scrapers ==
    LET cpu_based == MaxCpuUsage \div CpuPerScraper
        memory_based == AvailableMemoryGb \div MemoryPerScraperGb
        optimal == Min(Min(cpu_based, memory_based), MaxScrapers)
    IN IF optimal < 1 THEN 1 ELSE optimal

\* add_scraper_task calls made by the caller, and seconds of the clock that
\* datetime.now().strftime('%H%M%S') reads
MaxTasks == 2
MaxClock == 1

\* the sites of the configurations the caller submits
MgrSites == {"inm24", "inmuebles24", "cyt"}
BaseSites == {"inmuebles24", "inm24", "lamudi", "lam"}
DetailSite(site) == IF site \in {"inmuebles24", "inm24"} THEN "inm24_det" ELSE "lam_det"

\* add_scraper_task: task_id = f"{site}_{operation}_{HHMMSS}"
Task(site, operation, now) ==
    [id |-> <<site, operation, now>>, site |-> site, operation |-> operation]

\* dict[key] = value on a dict kept as the set of its items
PutItem(d, item) == {x \in d : x.id # item.id} \cup {item}

\* active_scrapers of the manager, an insertion-ordered dict kept as the
\* sequence of its items
MgrHas(d, id) == \E i \in DOMAIN d : d[i].id = id
MgrPut(d, e) ==
    IF MgrHas(d, e.id)
    THEN [i \in DOMAIN d |-> IF d[i].id = e.id THEN e ELSE d[i]]
    ELSE Append(d, e)

\* run_batch_scraping is not called
NoBatch == [pc |-> "none", task_ids |-> <<>>]

\* ConcurrentScraperManager.__init__(max_concurrent): backup_manager is None
\* when GoogleDriveBackupManager() raises.  backups are the tasks for which
\* run_backup_now() has been started; orphans are the scraper threads whose
\* entry of active_scrapers was overwritten while they were alive
ManagerInitWith(max_concurrent) ==
    \E backup_manager \in BOOLEAN :
        mgr = [pc |-> "constructed", shutdown |-> FALSE, clock |-> 0, added |-> 0,
               max_concurrent |-> max_concurrent, backup_manager |-> backup_manager,
               queue |-> <<>>, active |-> <<>>, completed |-> {}, failed |-> {},
               task_dependencies |-> {}, ok |-> FALSE,
               backups |-> {}, orphans |-> EmptyBag, batch |-> NoBatch]

\* max_concurrent=None: self.resource_monitor.get_optimal_concurrent_scrapers()
ManagerInit == ManagerInitWith(get_optimal_concurrent_scrapers)

MgrUnchanged ==
    UNCHANGED <<orchVars, legacy, sub, urls_dir, upd, mc>>

\* a second passes
MgrTick ==
    /\ mgr.pc \notin {"none", "stopped"} /\ mgr.clock < MaxClock
    /\ mgr' = [mgr EXCEPT !.clock = mgr.clock + 1]
    /\ MgrUnchanged

\* add_scraper_task, called by the user of the manager (at most limit times)
EnqueueTask(site, operation, limit) ==
    /\ mgr.pc \notin {"none", "stopped"} /\ mgr.added < limit
    /\ mgr.batch.pc = "none"
    /\ mgr' = [mgr EXCEPT !.queue = Append(mgr.queue, Task(site, operation, mgr.clock)),
                          !.added = mgr.added + 1]
    /\ MgrUnchanged

add_scraper_task(site, operation) == EnqueueTask(site, operation, MaxTasks)

\* start(): the thread of manage_scrapers is started
MgrStart ==
    /\ mgr.pc = "constructed"
    /\ mgr' = [mgr EXCEPT !.pc = "reap"]
    /\ MgrUnchanged

\* stop(): shutdown_event.set()
MgrStop ==
    /\ mgr.pc \notin {"none", "constructed", "stopped"} /\ ~mgr.shutdown
    /\ mgr.batch.pc = "none"
    /\ mgr' = [mgr EXCEPT !.shutdown = TRUE]
    /\ MgrUnchanged

\* run_with_result returns: thread.result = run_scraper_process(task), which
\* runs backup_manager.run_backup_now() when the scraper succeeded
MgrScraperFinish(i) ==
    /\ mgr.pc \notin {"none", "stopped"}
    /\ i \in DOMAIN mgr.active /\ mgr.active[i].alive
    /\ \E success \in BOOLEAN, urls_file \in BOOLEAN :
           mgr' = [mgr EXCEPT !.active[i] =
                      [@ EXCEPT !.alive = FALSE, !.success = success,
                                !.urls_file = success /\ urls_file],
                      !.backups = IF success /\ mgr.backup_manager
                                  THEN @ \cup {mgr.active[i].id} ELSE @]
    /\ MgrUnchanged

\* the ids of the scraper threads that are alive without an entry
Orphans == IF mgr.pc = "none" THEN {} ELSE BagToSet(mgr.orphans)

\* the same for a scraper thread that has no entry any more: its result is
\* never read
MgrOrphanFinish(id) ==
    /\ mgr.pc \notin {"none", "stopped"}
    /\ BagIn(id, mgr.orphans)
    /\ \E success \in BOOLEAN :
           mgr' = [mgr EXCEPT !.orphans = @ (-) SetToBag({id}),
                      !.backups = IF success /\ mgr.backup_manager
                                  THEN @ \cup {id} ELSE @]
    /\ MgrUnchanged

\* manage_scrapers, "Limpiar scrapers completados": the record of one
\* finished entry e, made when the clock reads now
ReapOne(m, e, now) ==
    LET enqueue == e.success /\ e.urls_file /\ e.site \in BaseSites
        detail == Task(DetailSite(e.site), e.operation, now)
    IN [m EXCEPT
           !.completed = IF e.success THEN PutItem(@, [id |-> e.id, urls_file |-> e.urls_file])
                         ELSE @,
           !.failed = IF e.success THEN @ ELSE PutItem(@, [id |-> e.id]),
           !.queue = IF enqueue THEN Append(@, detail) ELSE @,
           !.task_dependencies =
               IF enqueue THEN PutItem(@, [id |-> detail.id, depends_on |-> e.id]) ELSE @]

RECURSIVE ReapAll(_, _, _)
ReapAll(m, finished, now) ==
    IF finished = <<>> THEN m
    ELSE ReapAll(ReapOne(m, Head(finished), now), Tail(finished), now)

\* manage_scrapers: while not shutdown_event.is_set(): the finished entries
\* are popped and recorded
MgrReap ==
    /\ mgr.pc = "reap"
    /\ IF mgr.shutdown
       THEN mgr' = [mgr EXCEPT !.pc = "stopped"]
       ELSE LET finished == SelectSeq(mgr.active, LAMBDA e : ~e.alive)
                kept == SelectSeq(mgr.active, LAMBDA e : e.alive)
            IN mgr' = [ReapAll([mgr EXCEPT !.active = kept], finished, mgr.clock)
                          EXCEPT !.pc = "start"]
    /\ MgrUnchanged

\* the condition of the inner while: room, a queued task, and
\* resource_monitor.can_start_new_process()
MgrCheck ==
    /\ mgr.pc = "start"
    /\ IF Len(mgr.active) < mgr.max_concurrent /\ mgr.queue # <<>>
       THEN \E ok \in BOOLEAN : mgr' = [mgr EXCEPT !.pc = "checked", !.ok = ok]
       ELSE mgr' = [mgr EXCEPT !.pc = "reap", !.ok = FALSE]
    /\ MgrUnchanged

\* the body of the inner while: scraper_queue.get_nowait(), thread.start(),
\* active_scrapers[task['id']] = {...}
MgrLaunch ==
    /\ mgr.pc = "checked" /\ mgr.ok
    /\ LET task == Head(mgr.queue)
           overwritten == \E i \in DOMAIN mgr.active :
                              mgr.active[i].id = task.id /\ mgr.active[i].alive
       IN mgr' = [mgr EXCEPT
              !.queue = Tail(mgr.queue),
              !.active = MgrPut(mgr.active,
                  [id |-> task.id, site |-> task.site, operation |-> task.operation,
                   alive |-> TRUE, success |-> FALSE, urls_file |-> FALSE]),
              !.orphans = IF overwritten THEN @ (+) SetToBag({task.id}) ELSE @,
              !.pc = "start", !.ok = FALSE]
    /\ MgrUnchanged

\* can_start_new_process() returned False: the inner while ends, time.sleep(10)
MgrResourcesLow ==
    /\ mgr.pc = "checked" /\ ~mgr.ok
    /\ mgr' = [mgr EXCEPT !.pc = "reap"]
    /\ MgrUnchanged

\* run_batch_scraping(scraper_configs): add_scraper_task for every
\* configuration (in the same second), then start()
RECURSIVE BatchTasks(_, _)
BatchTasks(sites, now) ==
    IF sites = <<>> THEN <<>>
    ELSE <<Task(Head(sites), "venta", now)>> \o BatchTasks(Tail(sites), now)

BatchConfigs == UNION {[1..n -> MgrSites] : n \in 1..MaxTasks}

run_batch_scraping(sites) ==
    /\ mgr.pc = "constructed" /\ mgr.added = 0
    /\ LET tasks == BatchTasks(sites, mgr.clock)
       IN mgr' = [mgr EXCEPT
              !.queue = tasks, !.added = Len(tasks), !.pc = "reap",
              !.batch = [pc |-> "waiting",
                         task_ids |-> [i \in DOMAIN tasks |-> tasks[i].id]]]
    /\ MgrUnchanged

\* run_batch_scraping, the waiting loop: total_completed >= len(task_ids)
\* ends it; the results are returned and the finally clause calls stop()
BatchReturn ==
    /\ mgr.pc # "none" /\ mgr.batch.pc = "waiting"
    /\ Cardinality(mgr.completed) + Cardinality(mgr.failed) >= Len(mgr.batch.task_ids)
    /\ mgr' = [mgr EXCEPT !.batch.pc = "returned", !.shutdown = TRUE]
    /\ MgrUnchanged

(***************************************************************************)
(* AdvancedOrchestrator.start_scraper_subprocess, called on a scrap          *)
(***************************************************************************)
\* AdvancedOrchestrator.detail_dependencies: the base websites
DetailDependencies == {"inm24", "lam"}

\* get_scraper_script: scraper_mapping.get(website)
NoScript == "None"
get_scraper_script(website) ==
    CASE website = "inmuebles24" -> "inm24.py"
      [] website = "casas_y_terrenos" -> "cyt.py"
      [] website = "mitula" -> "mit.py"
      [] website = "lamudi" -> "lam.py"
      [] website = "propiedades" -> "prop.py"
      [] website = "trovit" -> "tro.py"
      [] OTHER -> NoScript

\* the websites of the scraps the method is called with
SubWebsites == {"inm24", "lam", "inmuebles24", "lamudi", "cyt", "mitula"}

\* an orchestrator whose run_orchestration is not called, and one scrap
SubInit ==
    /\ \E w \in SubWebsites :
           OrchInitWith(<<Row(w, 1, 1, "pending")>>, DefaultMaxConcurrentWebsites, "none")
    /\ sub = [pc |-> "call", scrap |-> 1, calls |-> <<>>, returned |-> "none"]

\* start_scraper_subprocess(scrap): every subprocess.Popen(cmd) appends cmd
\* to sub.calls; Popen may raise (OSError)
start_scraper_subprocess ==
    /\ sub.pc = "call"
    /\ LET scraper_script == get_scraper_script(csv[sub.scrap].website)
       IN IF scraper_script = NoScript
          THEN /\ sub' = [sub EXCEPT !.pc = "returned", !.returned = "None"]
               /\ UNCHANGED <<csv, urls_registry>>
          ELSE \E raises \in BOOLEAN :
                   IF raises
                   THEN /\ sub' = [sub EXCEPT !.pc = "returned", !.returned = "None"]
                        /\ update_scrap_execution(sub.scrap, "failed")
                   ELSE /\ sub' = [sub EXCEPT
                               !.pc = "returned", !.returned = "process",
                               !.calls = Append(sub.calls,
                                   [script |-> scraper_script, urls_file |-> FALSE])]
                        /\ update_scrap_execution(sub.scrap, "running")
    /\ UNCHANGED <<running, max_concurrent_websites, active_scrapers, completed_scrapers,
                   failed_scrapers, main, wt, sd, legacy, mgr, urls_dir, upd, mc>>

(***************************************************************************)
(* MasterController (master_controller.py), on the operator's machine: the  *)
(* thread of start_continuous_monitoring, the commands of the interactive   *)
(* session in the main thread, and the remote machine reached by ssh.       *)
(*   ssh      whether an ssh command to the remote machine succeeds         *)
(*   process  whether advanced_orchestrator.py runs on the remote machine   *)
(*   status   the dict that get_system_status returned to monitor_loop      *)
(*   was_running  self.orchestrator_running as it was when monitor_loop     *)
(*            called get_system_status (kept to state the properties)       *)
(*   recovering   monitor_loop called launch_orchestrator(resume=True) in   *)
(*            this round (kept to state the properties)                     *)
(***************************************************************************)
\* MasterController.__init__; the remote machine is in any condition
ControllerInit ==
    \E ssh \in BOOLEAN, process \in BOOLEAN :
        mc = [pc |-> "idle", cmd |-> "prompt",
              connected |-> FALSE, orchestrator_running |-> FALSE,
              monitoring |-> FALSE, auto_recovery_enabled |-> TRUE,
              status |-> [connection |-> FALSE, running |-> FALSE], was_running |-> FALSE, recovering |-> FALSE,
              ssh |-> ssh, process |-> process, last_launch |-> "none"]

ControllerUnchanged == UNCHANGED <<orchVars, legacy, mgr, sub, urls_dir, upd>>

\* test_connection: self.connected is whether the ssh command succeeded
test_connection(m) == [m EXCEPT !.connected = m.ssh]

\* check_orchestrator_status: ps aux | grep advanced_orchestrator.py over ssh;
\* self.orchestrator_running is set to what it finds (False also when the
\* command fails)
check_orchestrator_status(m) == [m EXCEPT !.orchestrator_running = m.ssh /\ m.process]

\* launch_orchestrator(resume), up to self.orchestrator_running = True (line
\* 275): test_connection, sync_project_code (synced is whether it worked),
\* check_orchestrator_status, and the nohup command when no orchestrator runs.
\* next is where the calling thread goes when the command has been sent
launch_orchestrator(m, resume, synced, next, back) ==
    LET tested == test_connection(m)
        checked == check_orchestrator_status(tested)
    IN IF ~m.ssh \/ ~synced THEN [tested EXCEPT ![back.field] = back.value]
       ELSE IF checked.orchestrator_running
            THEN [checked EXCEPT ![back.field] = back.value]
            ELSE [checked EXCEPT !.process = TRUE, !.orchestrator_running = TRUE,
                                 !.last_launch = IF resume THEN "resume" ELSE "fresh",
                                 ![next.field] = next.value]

\* start_continuous_monitoring: self.monitoring = True, the thread is started
start_continuous_monitoring ==
    /\ mc.pc \in {"idle", "ended"} /\ ~mc.monitoring
    /\ mc' = [mc EXCEPT !.monitoring = TRUE, !.pc = "loop"]
    /\ ControllerUnchanged

\* monitor_loop: while self.monitoring: status = self.get_system_status(),
\* whose first call is test_connection()
MonTestConnection ==
    /\ mc.pc = "loop"
    /\ mc' = IF ~mc.monitoring THEN [mc EXCEPT !.pc = "ended"]
             ELSE [test_connection(mc) EXCEPT !.pc = "tested",
                                              !.status = [connection |-> mc.ssh, running |-> FALSE]]
    /\ ControllerUnchanged

\* get_system_status: orchestrator_status = self.check_orchestrator_status(),
\* then the commands that read the load and count the scrapers
MonCheckOrchestrator ==
    /\ mc.pc = "tested"
    /\ mc' = [check_orchestrator_status(mc) EXCEPT
                 !.pc = "status",
                 !.status = [mc.status EXCEPT !.running = mc.ssh /\ mc.process],
                 !.was_running = mc.orchestrator_running,
                 !.recovering = FALSE]
    /\ ControllerUnchanged

\* monitor_loop: if self.auto_recovery_enabled: no connection: sleep and
\* continue; "if not status['orchestrator']['running'] and
\* self.orchestrator_running: self.launch_orchestrator(resume=True)"
MonRecover ==
    /\ mc.pc = "status"
    /\ IF mc.auto_recovery_enabled /\ ~mc.status.connection
       THEN mc' = [mc EXCEPT !.pc = "loop"]
       ELSE IF mc.auto_recovery_enabled /\ ~mc.status.running /\ mc.orchestrator_running
            THEN \E synced \in BOOLEAN :
                     mc' = launch_orchestrator([mc EXCEPT !.recovering = TRUE], TRUE, synced,
                               [field |-> "pc", value |-> "launched"],
                               [field |-> "pc", value |-> "save"])
            ELSE mc' = [mc EXCEPT !.pc = "save"]
    /\ ControllerUnchanged

\* launch_orchestrator, after time.sleep(3): check_orchestrator_status()
MonLaunched ==
    /\ mc.pc = "launched"
    /\ mc' = [check_orchestrator_status(mc) EXCEPT !.pc = "save"]
    /\ ControllerUnchanged

\* self.save_state(status); time.sleep(5)
MonSave ==
    /\ mc.pc = "save"
    /\ mc' = [mc EXCEPT !.pc = "loop"]
    /\ ControllerUnchanged

\* the commands 'launch' and 'resume' of the interactive session
UserLaunch(resume) ==
    /\ mc.pc # "none" /\ mc.cmd = "prompt"
    /\ \E synced \in BOOLEAN :
           mc' = launch_orchestrator(mc, resume, synced,
                     [field |-> "cmd", value |-> "launched"],
                     [field |-> "cmd", value |-> "prompt"])
    /\ ControllerUnchanged

UserLaunched ==
    /\ mc.pc # "none" /\ mc.cmd = "launched"
    /\ mc' = [check_orchestrator_status(mc) EXCEPT !.cmd = "prompt"]
    /\ ControllerUnchanged

\* the command 'stop': stop_orchestrator: pkill over ssh, time.sleep(3),
\* check_orchestrator_status()
stop_orchestrator ==
    /\ mc.pc # "none" /\ mc.cmd = "prompt"
    /\ mc' = check_orchestrator_status([mc EXCEPT !.process = mc.process /\ ~mc.ssh])
    /\ ControllerUnchanged

\* stop_monitoring: self.monitoring = False
stop_monitoring ==
    /\ mc.pc # "none" /\ mc.monitoring
    /\ mc' = [mc EXCEPT !.monitoring = FALSE]
    /\ ControllerUnchanged

\* the orchestrator process ends on the remote machine (it has finished, it
\* has died of an exception or the machine was restarted)
OrchestratorExits ==
    /\ mc.pc # "none" /\ mc.process
    /\ mc' = [mc EXCEPT !.process = FALSE]
    /\ ControllerUnchanged

\* the network between the two machines goes down or comes back
ConnectionChanges ==
    /\ mc.pc # "none"
    /\ mc' = [mc EXCEPT !.ssh = ~mc.ssh]
    /\ ControllerUnchanged

(***************************************************************************)
(* Specifications                                                           *)
(***************************************************************************)
Next ==
    \/ MainStart
    \/ MainSelect
    \/ StartWebsiteThread(MaxThreads)
    \/ MainResourcesLow
    \/ MainMonitor
    \/ MainMonitorDel
    \/ MainDisplay
    \/ ShutdownBegin
    \/ MainFinally
    \/ Signal
    \/ ShutdownNext
    \/ ShutdownPause
    \/ ShutdownRaise
    \/ ShutdownEnd
    \/ \E r \in WebsiteThreads : WFetch(r)
    \/ \E r \in WebsiteThreads : WNext(r)
    \/ \E r \in WebsiteThreads : WCooldown(r)
    \/ \E r \in WebsiteThreads : start_scraper_for_scrap(r)
    \/ \E r \in WebsiteThreads : WRegister(r)
    \/ \E r \in WebsiteThreads : ScraperFinish(r)
    \/ \E r \in WebsiteThreads : WDisplay(r)
    \/ \E r \in WebsiteThreads : WMonitor(r)
    \/ \E r \in WebsiteThreads : WMonitorDel(r)
    \/ MgrTick
    \/ \E site \in MgrSites : add_scraper_task(site, "venta")
    \/ MgrStart
    \/ MgrStop
    \/ \E i \in 1..MaxScrapers : MgrScraperFinish(i)
    \/ \E id \in Orphans : MgrOrphanFinish(id)
    \/ MgrReap
    \/ MgrCheck
    \/ MgrLaunch
    \/ MgrResourcesLow
    \/ \E sites \in BatchConfigs : run_batch_scraping(sites)
    \/ BatchReturn
    \/ start_scraper_subprocess

\* One run is a run of one of the programs: the orchestration, the manager of
\* concurrent scrapers, or a call of start_scraper_subprocess
OrchProgram == OrchInit /\ OthersIdle
ManagerProgram ==
    OrchIdle /\ ManagerInit /\ legacy = NoLegacy /\ sub = NoCall /\ RegistryIdle /\ ControllerIdle
SubProgram == SubInit /\ legacy = NoLegacy /\ mgr = NoManager /\ RegistryIdle /\ ControllerIdle

Init == OrchProgram \/ ManagerProgram \/ SubProgram

Spec == Init /\ [][Next]_vars

\* The orchestration while every scraper that is started keeps running (a
\* scraper runs for hours) and no signal arrives: the main loop, its finally
\* clause, and the website threads, which start scrapers and register them
NextCap ==
    \/ MainStart
    \/ MainSelect
    \/ StartWebsiteThread(CapThreads)
    \/ MainResourcesLow
    \/ MainMonitor
    \/ MainMonitorDel
    \/ MainDisplay
    \/ ShutdownBegin
    \/ ShutdownNext
    \/ ShutdownPause
    \/ ShutdownRaise
    \/ ShutdownEnd
    \/ \E r \in WebsiteThreads : WFetch(r)
    \/ \E r \in WebsiteThreads : WNext(r)
    \/ \E r \in WebsiteThreads : WCooldown(r)
    \/ \E r \in WebsiteThreads : start_scraper_for_scrap(r)
    \/ \E r \in WebsiteThreads : WRegister(r)
    \/ \E r \in WebsiteThreads : WDisplay(r)

SpecCap == OrchProgram /\ [][NextCap]_vars

NextRecovery ==
    \/ RecoveryConstruct
    \/ auto_recovery_sequence
    \/ OrchConstruct
    \/ resume_from_checkpoint
    \/ MainStart
    \/ MainSelect

SpecRecovery == CrashInit /\ [][NextRecovery]_vars

\* The run from the constructor on, with one website thread at a time and
\* without a shutdown
LoadThreads == 1

NextLoad ==
    \/ LoadRegistry
    \/ MainStart
    \/ MainSelect
    \/ StartWebsiteThread(LoadThreads)
    \/ MainResourcesLow
    \/ MainMonitor
    \/ MainMonitorDel
    \/ MainDisplay
    \/ \E r \in WebsiteThreads : WFetch(r)
    \/ \E r \in WebsiteThreads : WNext(r)
    \/ \E r \in WebsiteThreads : WCooldown(r)
    \/ \E r \in WebsiteThreads : start_scraper_for_scrap(r)
    \/ \E r \in WebsiteThreads : WRegister(r)
    \/ \E r \in WebsiteThreads : ScraperFinish(r)
    \/ \E r \in WebsiteThreads : WDisplay(r)
    \/ \E r \in WebsiteThreads : WMonitor(r)
    \/ \E r \in WebsiteThreads : WMonitorDel(r)

LoadProgram ==
    /\ LoadInit
    /\ legacy = NoLegacy /\ mgr = NoManager /\ sub = NoCall /\ upd = NoUpdates /\ ControllerIdle

SpecLoad == LoadProgram /\ [][NextLoad]_vars

\* ConcurrentScraperManager(max_concurrent=2) (--concurrent 2) and a user who
\* adds up to three tasks
PoolSize == 2
PoolTasks == 3

NextPool ==
    \/ MgrTick
    \/ \E site \in MgrSites : EnqueueTask(site, "venta", PoolTasks)
    \/ MgrStart
    \/ \E i \in 1..MaxScrapers : MgrScraperFinish(i)
    \/ \E id \in Orphans : MgrOrphanFinish(id)
    \/ MgrReap
    \/ MgrCheck
    \/ MgrLaunch
    \/ MgrResourcesLow

PoolProgram ==
    /\ OrchIdle /\ ManagerInitWith(PoolSize)
    /\ legacy = NoLegacy /\ sub = NoCall /\ RegistryIdle /\ ControllerIdle

SpecPool == PoolProgram /\ [][NextPool]_vars

\* A run of the orchestrator over the files that earlier runs have left: two
\* tasks, each of one of three websites, each as load_urls_from_csv reads it:
\* never run (Status '' in a new file, or 'pending'), resumed (pending, with
\* the NextRun of the resume), or last written with completed, failed, paused
\* or running by a run whose NextRun has elapsed or, for completed, has not
ReadyRegistries ==
    LET websites == {"Inmuebles24", "inm24", "cyt"}
        histories ==
            {<<"", 0, 0>>, <<"pending", 0, 0>>, <<"pending", 1, 2>>,
             <<"completed", 1, 1>>, <<"completed", 1, 2>>,
             <<"failed", 1, 1>>, <<"paused", 1, 1>>, <<"running", 1, 1>>}
        row(website, operacion, h) ==
            [website |-> website, ciudad |-> "Guadalajara", operacion |-> operacion,
             producto |-> 1, status |-> h[1], last_run |-> h[2], next_run |-> h[3]]
    IN {<<row(w1, 1, h1), row(w2, 2, h2)>> :
           w1 \in websites, w2 \in websites, h1 \in histories, h2 \in histories}

NextReady ==
    \/ MainStart
    \/ MainSelect
    \/ StartWebsiteThread(LoadThreads)
    \/ MainResourcesLow
    \/ MainMonitor
    \/ MainMonitorDel
    \/ MainDisplay
    \/ \E r \in WebsiteThreads : WFetch(r)
    \/ \E r \in WebsiteThreads : WNext(r)
    \/ \E r \in WebsiteThreads : WCooldown(r)
    \/ \E r \in WebsiteThreads : start_scraper_for_scrap(r)
    \/ \E r \in WebsiteThreads : WRegister(r)
    \/ \E r \in WebsiteThreads : ScraperFinish(r)
    \/ \E r \in WebsiteThreads : WDisplay(r)
    \/ \E r \in WebsiteThreads : WMonitor(r)
    \/ \E r \in WebsiteThreads : WMonitorDel(r)

ReadyProgram ==
    /\ \E reg \in ReadyRegistries : OrchInitWith(reg, DefaultMaxConcurrentWebsites, "start")
    /\ OthersIdle

SpecReady == ReadyProgram /\ [][NextReady]_vars

\* The interactive session of MasterController with its monitoring thread
NextController ==
    \/ start_continuous_monitoring
    \/ MonTestConnection
    \/ MonCheckOrchestrator
    \/ MonRecover
    \/ MonLaunched
    \/ MonSave
    \/ \E resume \in BOOLEAN : UserLaunch(resume)
    \/ UserLaunched
    \/ stop_orchestrator
    \/ stop_monitoring
    \/ OrchestratorExits
    \/ ConnectionChanges

ControllerProgram ==
    /\ OrchIdle /\ ControllerInit
    /\ legacy = NoLegacy /\ mgr = NoManager /\ sub = NoCall /\ RegistryIdle

SpecController == ControllerProgram /\ [][NextController]_vars

\* Two calls of update_scrap_execution in two threads
NextUpdate ==
    \/ \E c \in DOMAIN upd : UpdRead(c)
    \/ \E c \in DOMAIN upd : UpdWrite(c)

UpdProgram ==
    /\ UpdInit
    /\ legacy = NoLegacy /\ mgr = NoManager /\ sub = NoCall /\ urls_dir = NoDir /\ ControllerIdle

SpecUpdate == UpdProgram /\ [][NextUpdate]_vars

HasWorker(k) == \E r \in WebsiteThreads : r.scrap = k /\ r.alive

\* C3: after the restart that follows a crash, when the first cycle of the
\* orchestration begins no task is left in status running without a live
\* worker
C3_NoTaskStuckRunning ==
    main.pc \in {"loop", "checked", "monitor", "monitor_del", "display"} =>
        \A k \in DOMAIN csv : csv[k].status = "running" => HasWorker(k)

\* C4: the list that get_scraps_for_website gives to process_website_completely
\* holds the pending scraps of the website in the order of their rows in the
\* CSV, whatever their operation and product
C4_RegistryOrder ==
    \A r \in WebsiteThreads :
        r.pc = "loop" =>
            \A i \in DOMAIN r.scraps, j \in DOMAIN r.scraps : i < j => r.scraps[i] < r.scraps[j]

\* C5: while the orchestration runs, a task has status running exactly when
\* an entry of active_scrapers refers to it
C5_RunningIffListed ==
    main.pc # "none" => \A k \in DOMAIN csv : csv[k].status = "running" <=>
            \E i \in DOMAIN active_scrapers : active_scrapers[i].scrap = k

\* C6: every completed base task of the manager whose result carries a
\* urls_file has a detail task recorded in task_dependencies as depending on it
C6_ParentHasChild ==
    mgr.pc # "none" =>
        \A c \in mgr.completed :
            (c.id[1] \in BaseSites /\ c.urls_file) =>
                \E d \in mgr.task_dependencies : d.depends_on = c.id

\* C7: start_scraper_subprocess, called for a base website with a detail
\* dependency, has made two launches when it returns, the second with
\* --urls-file
C7_BaseThenDetail ==
    (sub.pc = "returned" /\ csv[sub.scrap].website \in DetailDependencies) =>
        (Len(sub.calls) = 2 /\ sub.calls[2].urls_file)

\* C8: the first failed attempt of a task returns it to pending
C8_FirstFailureReturnsToPending ==
    [][\A k \in DOMAIN csv :
           (k \notin failed_scrapers /\ k \in failed_scrapers') => csv'[k].status = "pending"]_vars

NumScrapers(b) == SumCopies(b, {r \in BagToSet(b) : r.alive})
MgrAlive(m) ==
    IF m.pc = "none" THEN 0
    ELSE Cardinality({i \in DOMAIN m.active : m.active[i].alive}) + BagCardinality(m.orphans)
MgrEntries(m) == IF m.pc = "none" THEN 0 ELSE Len(m.active)

\* C9: a step taken on a negative resource check starts nothing: the main
\* loop starts no website thread, a website thread starts no scraper and
\* moves no task to running, the manager starts no scraper thread
C9_NoStartOnNegativeCheck ==
    [][/\ (main.pc = "checked" /\ ~main.ok) => NumLive(wt') <= NumLive(wt)
       /\ \A r \in WebsiteThreads :
              (r.pc = "checked" /\ ~r.ok /\ CopiesIn(r, wt') < CopiesIn(r, wt)) =>
                  /\ NumScrapers(wt') <= NumScrapers(wt)
                  /\ active_scrapers' = active_scrapers
                  /\ csv' = csv
       /\ (mgr.pc = "checked" /\ ~mgr.ok) =>
              /\ MgrEntries(mgr') <= MgrEntries(mgr)
              /\ MgrAlive(mgr') <= MgrAlive(mgr)]_vars

\* a negative check of the main loop has been passed and no website thread runs
C9_NegativeCheckPassed ==
    /\ main.pc = "monitor" /\ main.next_website # NoWebsite /\ ~main.ok
    /\ NumLive(wt) = 0

\* C10: once graceful_shutdown has set running to False no task is moved to
\* running, and when graceful_shutdown returns no task has status running
C10_NoStartAfterShutdown ==
    [][/\ (sd.state # "idle" /\ ~running) =>
              \A k \in DOMAIN csv : csv'[k].status = "running" => csv[k].status = "running"
       /\ (sd.state # "returned" /\ sd'.state = "returned") =>
              \A k \in DOMAIN csv : csv'[k].status # "running"]_vars

\* C11: graceful_shutdown marks as paused only a task whose worker is still
\* alive when its wait is over, and never a task whose status is already
\* completed or failed
C11_PausedOnlyIfAlive ==
    [][\A k \in DOMAIN csv \cap DOMAIN csv' :
           (csv[k].status # "paused" /\ csv'[k].status = "paused") =>
               (HasWorker(k) /\ csv[k].status \notin {"completed", "failed"})]_vars

\* C12: without a shutdown request, the loop of run_orchestration ends only
\* when active_scrapers is empty, no scraper is executing and
\* get_next_website_to_process finds no website
C12_LoopEndsOnlyWhenIdle ==
    [][(main.pc # "finally" /\ main'.pc = "finally" /\ sd.state = "idle") =>
           /\ active_scrapers' = <<>>
           /\ NumScrapers(wt') = 0
           /\ get_next_website_to_process(urls_registry', active_scrapers') = NoWebsite]_vars

\* C13: no status written to the registry skips running: a pending task
\* changes to running and to nothing else, also when no scraper can be
\* started for it
C13_PendingOnlyToRunning ==
    [][\A k \in DOMAIN csv \cap DOMAIN csv' :
           (csv[k].status = "pending" /\ csv'[k].status # "pending") =>
               csv'[k].status = "running"]_vars

NaturalKey(row) == <<row.website, row.ciudad, row.operacion, row.producto>>

\* C15: once the registry is loaded no two tasks have the same natural key
\* or the same id, and update_scrap_execution called with the id of a task
\* finds that task
C15_KeysAndIdsUnique ==
    (urls_dir # NoDir /\ main.pc # "construct") =>
        \A i \in DOMAIN urls_registry :
            /\ Target(i) = i
            /\ \A j \in DOMAIN urls_registry :
                   i # j => /\ NaturalKey(urls_registry[i]) # NaturalKey(urls_registry[j])
                            /\ url_id(urls_registry[i]) # url_id(urls_registry[j])

\* C16: when a file of URLs/ cannot be read at startup, scheduling does not
\* proceed: no website thread is started and no task is moved to running
C16_NoSchedulingOnUnreadable ==
    (\E i \in DOMAIN urls_dir : ~urls_dir[i].readable) =>
        /\ wt = EmptyBag
        /\ \A k \in DOMAIN csv : csv[k].status = "pending"

\* C18: a scrap rejected by the resource check is the next scrap that its
\* website thread attempts after the cool-down
C18_RejectedScrapIsNext ==
    [][\A r \in WebsiteThreads :
           (r.pc = "checked" /\ ~r.ok /\ CopiesIn(r, wt') < CopiesIn(r, wt)) =>
               \E r2 \in BagToSet(wt') :
                   /\ r2.website = r.website /\ r2.pc = "loop"
                   /\ r2.scraps # <<>> /\ Head(r2.scraps) = r.scrap]_vars

\* C14: when two calls of update_scrap_execution for two tasks of the same
\* file have returned, the file holds the status written by each of them
C14_BothUpdatesInFile ==
    (upd # NoUpdates /\ \A c \in DOMAIN upd : upd[c].pc = "returned") =>
        \A c \in DOMAIN upd : csv[upd[c].scrap].status = upd[c].status

\* C17: a backup is started for a task only after the task has been recorded
\* as completed
C17_BackupAfterCompleted ==
    mgr.pc # "none" => \A id \in mgr.backups : \E c \in mgr.completed : c.id = id

\* C19: the scraper threads of the manager that are alive are never more
\* than max_concurrent
C19_PoolBound == mgr.pc # "none" => MgrAlive(mgr) <= mgr.max_concurrent

\* C20: when run_batch_scraping returns, every task it submitted is recorded
\* in completed_scrapers or failed_scrapers
C20_BatchReturnsWhenAllDone ==
    (mgr.pc # "none" /\ mgr.batch.pc = "returned") =>
        \A i \in DOMAIN mgr.batch.task_ids :
            \/ \E c \in mgr.completed : c.id = mgr.batch.task_ids[i]
            \/ \E f \in mgr.failed : f.id = mgr.batch.task_ids[i]

\* C21: with auto_recovery_enabled, a round of the monitoring thread that finds
\* the connection up and no orchestrator running, while orchestrator_running
\* was True when the round began, calls launch_orchestrator(resume=True)
C21_RelaunchWhenStopped ==
    [][(/\ mc.pc = "status" /\ mc'.pc # "status"
        /\ mc.auto_recovery_enabled /\ mc.was_running
        /\ mc.status.connection /\ ~mc.status.running) => mc'.recovering]_vars

\* C23: get_pending_scraps returns exactly the tasks whose status is pending
\* and whose next_run is empty or not later than now; a running, paused or
\* failed task is never in the list
C23_ReadyArePendingAndDue ==
    LET ready == get_pending_scraps(urls_registry)
    IN {ready[i] : i \in DOMAIN ready} =
        {k \in DOMAIN urls_registry :
            urls_registry[k].status = "pending" /\ urls_registry[k].next_run \in {0, 1}}

\* C24: the ready list is in ascending priority, then longest-waiting first,
\* ties in insertion order; get_next_website_to_process returns the website of
\* the first task of that list whose website is not in active_scrapers
C24_ReadyOrderAndNextWebsite ==
    LET reg == urls_registry
        ready == get_pending_scraps(reg)
        prio(k) == get_website_priority(reg[k].website)
        \* task a goes before task b: smaller priority number, then earlier
        \* last_run (never run before run), then earlier place in the registry
        GoesBefore(a, b) ==
            \/ prio(a) < prio(b)
            \/ prio(a) = prio(b) /\ reg[a].last_run < reg[b].last_run
            \/ prio(a) = prio(b) /\ reg[a].last_run = reg[b].last_run /\ a < b
        ws == {reg[k].website : k \in DOMAIN reg}
        \* the dicts active_scrapers over the websites of the registry, as
        \* far as their keys go
        ActiveOver ==
            {<<>>} \cup {<<[website |-> w]>> : w \in ws}
                   \cup {<<[website |-> p[1]], [website |-> p[2]]>> :
                             p \in {q \in ws \X ws : q[1] # q[2]}}
        \* the website of the first task of the list whose website is not a
        \* key of active
        FirstFree(active) ==
            LET free == {i \in DOMAIN ready : ~DictHas(active, reg[ready[i]].website)}
            IN IF free = {} THEN NoWebsite
               ELSE reg[ready[CHOOSE i \in free : \A j \in free : i <= j]].website
    IN /\ \A i \in DOMAIN ready : \A j \in DOMAIN ready :
              i < j => GoesBefore(ready[i], ready[j])
       /\ \A active \in ActiveOver :
              get_next_website_to_process(reg, active) = FirstFree(active)

\* the main loop has selected a website from a registry whose two tasks are
\* ready with the same priority, the second having waited longer, and with
\* the website of the first ready task active the other website is returned
C24_LongerWaitingSelected ==
    /\ main.pc = "checked"
    /\ Len(urls_registry) = 2
    /\ get_pending_scraps(urls_registry) = <<2, 1>>
    /\ get_website_priority(urls_registry[1].website) = get_website_priority(urls_registry[2].website)
    /\ main.next_website = urls_registry[2].website
    /\ get_next_website_to_process(urls_registry, <<[website |-> urls_registry[2].website]>>) =
           urls_registry[1].website
    /\ urls_registry[1].website # urls_registry[2].website

\* C25: no scraper is started for a task that has been executed in this run
\* (its last_run was written in this run), nor for a completed task whose
\* next_run has not elapsed
C25_NotExecutedAgain ==
    [][\A r \in WebsiteThreads :
           (/\ r.pc = "checked" /\ r.ok /\ Lower(r.website) \in scraper_functions
            /\ CopiesIn(r, wt') < CopiesIn(r, wt)
            /\ Target(r.scrap) \in DOMAIN csv) =>
               /\ csv[Target(r.scrap)].last_run # 2
               /\ ~(csv[Target(r.scrap)].status = "completed" /\
                    csv[Target(r.scrap)].next_run = 2)]_vars

\* C26: the reporting step never aborts the dispatch loop (the step of the
\* main loop that follows display_progress is not the propagation of an
\* exception) nor a website thread (a website thread that waits for its
\* running scraper is still waiting after any step)
C26_ReportNeverAborts ==
    [][/\ (main.pc = "display" /\ main'.pc # "display") => ~main'.raised
       /\ \A r \in WebsiteThreads :
              (r.pc = "wait" /\ r.alive /\ CopiesIn(r, wt') < CopiesIn(r, wt)) =>
                  \E r2 \in BagToSet(wt') :
                      r2.pc = "wait" /\ r2.website = r.website /\ r2.scrap = r.scrap]_vars

\* C27: after resume_from_checkpoint a task that was paused is pending and is
\* executed in the resumed run without waiting for its interval: the first
\* dispatch cycle does not find "no website to process" while a task that the
\* resume has set to pending (its last_run is of this run) is still pending
C27_ResumedTaskDispatched ==
    (main.pc = "monitor" /\ main.next_website = NoWebsite /\ wt = EmptyBag) =>
        \A k \in DOMAIN csv : ~(csv[k].status = "pending" /\ csv[k].last_run = 2)

\* C28: a finished scraper thread is reaped once (no first loop of
\* monitor_active_scrapers, run by the main loop or by a website thread whose
\* scraper has ended, records an execution that is already in
\* completed_scrapers or failed_scrapers), and the removal of its entry from
\* active_scrapers does not fail
C28_ReapedOnce ==
    [][/\ (\/ main.pc = "monitor" /\ main'.pc = "monitor_del"
           \/ \E r \in WebsiteThreads :
                  /\ r.pc = "wait" /\ ~r.alive
                  /\ \E r2 \in BagToSet(wt') :
                         /\ r2.pc = "monitor_del" /\ r2.website = r.website
                         /\ CopiesIn(r2, wt') > CopiesIn(r2, wt)) =>
              \A i \in DOMAIN Finished(active_scrapers) :
                  Finished(active_scrapers)[i].scrap \notin completed_scrapers \cup failed_scrapers
       /\ (main.pc = "monitor_del" /\ main'.pc # "monitor_del" /\ sd.state # "iterating") =>
              ~main'.raised
       /\ \A r \in WebsiteThreads :
              (r.pc = "monitor_del" /\ CopiesIn(r, wt') < CopiesIn(r, wt)) =>
                  \E r2 \in BagToSet(wt') : r2.pc = "loop" /\ r2.website = r.website]_vars

\* C29: the website that get_next_website_to_process has returned to the main
\* loop has at least one scrap that get_scraps_for_website returns
C29_SelectedWebsiteHasScraps ==
    main.pc = "checked" => get_scraps_for_website(csv, main.next_website) # <<>>

\* C30: the tasks of the manager that wait in the queue or have an entry in
\* active_scrapers have ids that differ from one another, and every scraper
\* thread that is alive has its entry in active_scrapers
C30_TaskIdsDistinct ==
    mgr.pc # "none" =>
        /\ \A i \in DOMAIN mgr.queue : \A j \in DOMAIN mgr.queue :
               i # j => mgr.queue[i].id # mgr.queue[j].id
        /\ \A i \in DOMAIN mgr.queue : ~MgrHas(mgr.active, mgr.queue[i].id)
        /\ mgr.orphans = EmptyBag

====
